---- MODULE Spec2Model ----
(***************************************************************************)
(* A model of go-orvibo (orvibo.go): the device registry, the one-slot     *)
(* event channel, the orchestration operations and the datagram handler,   *)
(* driven by a client that calls the public operations and handles events  *)
(* the way the example program (tests/main.go) does.                       *)
(* The example program itself, with the two goroutines its timers run, is   *)
(* the specification SpecProgram.                                          *)
(*                                                                         *)
(* Go strings that hold hex text are sequences of one-character strings;   *)
(* byte slices are sequences of integers 0..255.                           *)
(***************************************************************************)
EXTENDS Integers, Sequences, FiniteSets, TLC

VARIABLES
    Devices,      \* map[string]*Device: MAC -> Device record
    deviceCount,  \* how many devices have been registered
    Events,       \* the buffered channel of EventStruct, capacity 1
    conn,         \* TRUE when the UDP connection is listening, FALSE when nil
    sent,         \* the WriteToUDP calls of the last operation, each with its outcome
    passed,       \* the event names handed to passMessage by the last operation
    dropped,      \* those of them that passMessage dropped
    ret,          \* what the last operation returned
    lastOp,       \* the operation that ran last, with its arguments
    crashed,      \* TRUE once a run-time panic has ended the process
    received,     \* number of datagrams read from the socket so far
    pcMain,       \* where the example program's main goroutine is
    resubscribe,  \* where the example program's resubscribe goroutine is in Subscribe
    pending       \* the datagrams the devices have sent that are not read yet

vars == <<Devices, deviceCount, Events, conn, sent, passed, dropped, ret, lastOp,
          crashed, received, pcMain, resubscribe, pending>>

-----------------------------------------------------------------------------
(* Bounds of the model *)

\* the network delivers at most this many datagrams in one run
MaxDatagrams == 3

-----------------------------------------------------------------------------
(* Hex text and bytes: encoding/hex *)

HexDigits == <<"0","1","2","3","4","5","6","7","8","9","a","b","c","d","e","f">>

UpperHex == <<"A","B","C","D","E","F">>

HexChars == {HexDigits[i] : i \in 1..16} \cup {UpperHex[i] : i \in 1..6}

IsHexChar(c) == c \in HexChars

\* the value of each hex digit, upper or lower case
HexValue ==
    [c \in HexChars |->
        IF \E i \in 1..16 : HexDigits[i] = c
        THEN (CHOOSE i \in 1..16 : HexDigits[i] = c) - 1
        ELSE (CHOOSE i \in 1..6 : UpperHex[i] = c) + 9]

HexVal(c) == HexValue[c]

\* hex.DecodeString: the bytes of the leading well-formed pairs (the error is
\* ignored by every caller)
DecodeString(s) ==
    LET bad == {i \in 1..Len(s) : ~IsHexChar(s[i])}
        firstBad == IF bad = {} THEN Len(s) + 1
                    ELSE CHOOSE i \in bad : \A j \in bad : i <= j
        n == IF bad = {} THEN Len(s) \div 2 ELSE (firstBad - 1) \div 2
    IN  [i \in 1..n |-> 16 * HexVal(s[2 * i - 1]) + HexVal(s[2 * i])]

\* hex.EncodeToString: two lowercase digits per byte
EncodeToString(b) ==
    [i \in 1..(2 * Len(b)) |->
        IF i % 2 = 1 THEN HexDigits[(b[(i + 1) \div 2] \div 16) + 1]
                     ELSE HexDigits[(b[i \div 2] % 16) + 1]]

\* strings.Index: 0-based position of the first occurrence of sub in s, or -1
Index(s, sub) ==
    LET at(i) == \A j \in 1..Len(sub) : s[i + j] = sub[j]
        hits == {i \in 0..(Len(s) - Len(sub)) : at(i)}
    IN  IF hits = {} THEN -1 ELSE CHOOSE i \in hits : \A j \in hits : i <= j

\* s[lo:hi] is a run-time panic unless 0 <= lo <= hi <= len(s)
SliceOK(s, lo, hi) == 0 <= lo /\ lo <= hi /\ hi <= Len(s)

Slice(s, lo, hi) == SubSeq(s, lo + 1, hi)

-----------------------------------------------------------------------------
(* Program constants *)

SOCKET == 0

ALLONE == 1

\* capacity of the Events channel
EventsCap == 1

twenties == <<"2","0","2","0","2","0","2","0","2","0","2","0">>

DiscoverMsg == <<"6","8","6","4","0","0","0","6","7","1","6","1">>

SubscribeHead == <<"6","8","6","4","0","0","1","e","6","3","6","c">>

QueryHead == <<"6","8","6","4","0","0","1","D","7","2","7","4">>

QueryTail == <<"0","0","0","0","0","0","0","0","0","4","0","0","0","0","0","0","0","0","0","0","0","0">>

SetStateHead == <<"6","8","6","4","0","0","1","7","6","4","6","3">>

SetStateZeros == <<"0","0","0","0","0","0","0","0">>

-----------------------------------------------------------------------------
(* The network around the library *)

MAC1 == <<"a","c","c","f","d","e","a","d","b","e","e","f">>

MAC2 == <<"a","c","c","f","2","3","a","a","b","b","c","c">>

MACs == {MAC1, MAC2}

\* the UDP port of the protocol
OrviboPort == 10000

UDPAddr(ip) == [IP |-> ip, Port |-> OrviboPort]

\* net.IPv4bcast
IPv4bcast == "255.255.255.255"

\* what getLocalIP returns on this machine
LocalIP == "192.168.1.2"

\* the addresses of the two devices
ADDR1 == UDPAddr("192.168.1.10")

ADDR2 == UDPAddr("192.168.1.11")

BCAST == UDPAddr(IPv4bcast)

Dests == {BCAST, ADDR1, ADDR2}

\* a nil *net.UDPAddr
NilAddr == [IP |-> "nil", Port |-> 0]

-----------------------------------------------------------------------------
(* The packets the operations build *)

\* the body of reverseMAC: the hex string decoded, its bytes reversed, and encoded again
ReverseHex(mac) ==
    LET b == DecodeString(mac)
    IN  EncodeToString([i \in 1..Len(b) |-> b[Len(b) + 1 - i]])

\* ReverseHex of the MACs of this model, computed once
Reversed == [m \in MACs |-> ReverseHex(m)]

reverseMAC(mac) == IF mac \in MACs THEN Reversed[mac] ELSE ReverseHex(mac)

SubscribePacket(mac) ==
    SubscribeHead \o mac \o twenties \o reverseMAC(mac) \o twenties

QueryPacket(mac) == QueryHead \o mac \o twenties \o QueryTail

\* variant of SetStatePacket: the state bytes exchanged
SetStatePacketInverted(macAdd, state) ==
    SetStateHead \o macAdd \o twenties \o SetStateZeros
        \o (IF state THEN <<"0","0">> ELSE <<"0","1">>)

SetStatePacket(macAdd, state) ==
    SetStateHead \o macAdd \o twenties \o SetStateZeros
        \o (IF state THEN <<"0","1">> ELSE <<"0","0">>)

\* strconv.FormatInt(n, 16) for n >= 0
RECURSIVE FormatHex(_)
FormatHex(n) ==
    IF n < 16 THEN <<HexDigits[n + 1]>>
    ELSE Append(FormatHex(n \div 16), HexDigits[(n % 16) + 1])

\* fmt.Sprintf("%0<w>s", str): zeros on the left up to width w
RECURSIVE PadZero(_, _)
PadZero(str, w) == IF Len(str) >= w THEN str ELSE PadZero(<<"0">> \o str, w)

ALL == <<"A","L","L">>

RFHead == <<"6","8","6","4">>

RFCommand == <<"6","4","6","3">>

RFSubcommand == <<"3","e","f","5","e","e","0","b">>

RFPacket(packetlen, mac, rnda, rndb, RF) ==
    RFHead \o packetlen \o RFCommand \o mac \o twenties \o RFSubcommand \o rnda \o rndb \o RF

\* EmitRF's packet for one device: the length is that of the template packet
\* built first, formatted in hex and padded to four digits
EmitRFPacket(mac, na, nb, RF) ==
    LET rnda == PadZero(FormatHex(na), 2)
        rndb == PadZero(FormatHex(nb), 2)
        packet == RFPacket(<<"0","0","0","0">>, MAC1, rnda, rndb, RF)
        packetlen == PadZero(FormatHex(Len(packet) \div 2), 4)
    IN  RFPacket(packetlen, mac, rnda, rndb, RF)

IRCommand == <<"6","9","6","3">>

IRSubcommand == <<"6","5","0","0","0","0","0","0">>

IRPacket(packetlen, mac, rnda, rndb, irlen, IR) ==
    RFHead \o packetlen \o IRCommand \o mac \o twenties \o IRSubcommand \o rnda \o rndb
           \o irlen \o IR

\* variant of EmitIRPacket: the two bytes of the packet length exchanged, as
\* those of irlen are
EmitIRPacketSwapped(mac, na, nb, IR) ==
    LET rnda == PadZero(FormatHex(na), 2)
        rndb == PadZero(FormatHex(nb), 2)
        irlen0 == PadZero(FormatHex(Len(IR) \div 2), 4)
        irlen == Slice(irlen0, 2, 4) \o Slice(irlen0, 0, 2)
        packet == IRPacket(<<"0","0","0","0">>, MAC1, rnda, rndb, irlen, IR)
        packetlen0 == PadZero(FormatHex(Len(packet) \div 2), 4)
        packetlen == Slice(packetlen0, 2, 4) \o Slice(packetlen0, 0, 2)
    IN  IRPacket(packetlen, mac, rnda, rndb, irlen, IR)

\* EmitIR's packet for one device: irlen is the code's length in bytes as four hex
\* digits with its two bytes swapped
EmitIRPacket(mac, na, nb, IR) ==
    LET rnda == PadZero(FormatHex(na), 2)
        rndb == PadZero(FormatHex(nb), 2)
        irlen0 == PadZero(FormatHex(Len(IR) \div 2), 4)
        irlen == Slice(irlen0, 2, 4) \o Slice(irlen0, 0, 2)
        packet == IRPacket(<<"0","0","0","0">>, MAC1, rnda, rndb, irlen, IR)
        packetlen == PadZero(FormatHex(Len(packet) \div 2), 4)
    IN  IRPacket(packetlen, mac, rnda, rndb, irlen, IR)

\* an IR code a client emits
ExampleIR == <<"0","0","a","a","b","b">>

LearnHead == <<"6","8","6","4","0","0","1","8","6","c","7","3">>

LearnTail == <<"0","1","0","0","0","0","0","0","0","0","0","0">>

LearnPacket(mac) == LearnHead \o mac \o twenties \o LearnTail

\* EnterRFLearningMode's packet opens with 6464
RFLearnHead == <<"6","4","6","4","0","0","1","8","7","2","6","6">>

RFLearnPacket(mac) == RFLearnHead \o mac \o twenties \o LearnTail

\* the length in bytes of a long learned code
LongBytes == 240

\* a long code, as a learned code can be
LongCode == [i \in 1..(2 * LongBytes) |-> IF i % 2 = 1 THEN "5" ELSE "a"]

\* the RF code the example emits once a device is queried
ExampleRF == <<"2","b","0","0","d","a","a","e","e","b">>

\* the pairs of values the two calls of rand.Intn(255) are taken to return
Nonces == {<<7, 254>>, <<171, 0>>}

\* the hex texts the operations of this model hand to SendMessage
HexTexts ==
    {DiscoverMsg}
        \cup {SubscribePacket(m) : m \in MACs}
        \cup {QueryPacket(m) : m \in MACs}
        \cup {SetStatePacket(m, b) : m \in MACs, b \in BOOLEAN}
        \cup {EmitRFPacket(m, n[1], n[2], ExampleRF) : m \in MACs, n \in Nonces}
        \cup {LearnPacket(m) : m \in MACs}
        \cup {EmitIRPacket(m, n[1], n[2], ExampleIR) : m \in MACs, n \in Nonces}
        \cup {EmitRFPacket(m, n[1], n[2], LongCode) : m \in MACs, n \in Nonces}
        \cup {EmitIRPacket(m, n[1], n[2], LongCode) : m \in MACs, n \in Nonces}
        \cup {RFLearnPacket(m) : m \in MACs}

\* hex.DecodeString of each of them, computed once
Decoded == [m \in HexTexts |-> DecodeString(m)]

\* buf, _ := hex.DecodeString(msg)
DecodeMsg(msg) == IF msg \in HexTexts THEN Decoded[msg] ELSE DecodeString(msg)

-----------------------------------------------------------------------------
(* Pointers to Device values *)

\* &Device{}: a fresh, zero-valued Device that is not in the registry
FreshDevice == [kind |-> "fresh", IP |-> NilAddr]

\* &Device{IP: udpAddr}
FreshDeviceAt(ip) == [kind |-> "fresh", IP |-> ip]

\* Devices[mac]: the registry's pointer for mac, nil when mac is not a key
EntryPtr(s, mac) ==
    IF mac \in DOMAIN s.Devices THEN [kind |-> "entry", mac |-> mac]
                                ELSE [kind |-> "nil"]

\* the result of an operation that returns nothing
NoRet == [ok |-> FALSE, err |-> "void"]

\* the program state as one record, so that operations compose
Cur ==
    [Devices |-> Devices, deviceCount |-> deviceCount, Events |-> Events,
     conn |-> conn, sent |-> sent, passed |-> passed, dropped |-> dropped,
     ret |-> ret, crashed |-> crashed]

\* the state an operation starts from: the logs of the last operation cleared
Begin == [Cur EXCEPT !.sent = <<>>, !.passed = <<>>, !.dropped = <<>>, !.ret = NoRet]

Commit(s) ==
    /\ Devices' = s.Devices
    /\ deviceCount' = s.deviceCount
    /\ Events' = s.Events
    /\ conn' = s.conn
    /\ sent' = s.sent
    /\ passed' = s.passed
    /\ dropped' = s.dropped
    /\ ret' = s.ret
    /\ crashed' = s.crashed

\* a nil dereference or an out-of-range slice: the process panics
Panic(s) == [s EXCEPT !.crashed = TRUE]

Return(s, ok, err) == [s EXCEPT !.ret = [ok |-> ok, err |-> err]]

-----------------------------------------------------------------------------
(* passMessage, SendMessage, broadcastMessage *)

\* variant of passMessage: a full slot is overwritten by the new event
passMessageOverwrite(s, message, device) ==
    IF Len(s.Events) < EventsCap
    THEN [s EXCEPT !.Events = Append(@, [Name |-> message, DeviceInfo |-> device]),
                   !.passed = Append(@, message)]
    ELSE [s EXCEPT !.Events = <<[Name |-> message, DeviceInfo |-> device]>>,
                   !.passed = Append(@, message)]

passMessage(s, message, device) ==
    IF Len(s.Events) < EventsCap
    THEN [s EXCEPT !.Events = Append(@, [Name |-> message, DeviceInfo |-> device]),
                   !.passed = Append(@, message)]
    ELSE [s EXCEPT !.passed = Append(@, message),
                   !.dropped = Append(@, message)]

\* failTo: the destinations to which a write fails during this operation
SendMessage(s, msg, device, failTo) ==
    IF s.crashed THEN s
    ELSE IF device.kind = "nil" THEN Panic(s)
    ELSE LET ip == IF device.kind = "entry" THEN s.Devices[device.mac].IP
                                            ELSE device.IP
         IN  IF ip = NilAddr THEN Return(s, FALSE, "resolveErr")
             ELSE LET ok == s.conn /\ ip \notin failTo
                      s1 == [s EXCEPT !.sent = Append(@, [to |-> ip, data |-> DecodeMsg(msg), ok |-> ok])]
                  IN  IF ~ok THEN Return(s1, FALSE, "sendErr")
                      ELSE Return(passMessage(s1, "sendmessage", device), TRUE, "nil")

broadcastMessage(s, msg, failTo) ==
    LET s1 == SendMessage(s, msg, FreshDeviceAt(BCAST), failTo)
    IN  Return(passMessage(s1, "broadcast", FreshDevice), TRUE, "nil")

-----------------------------------------------------------------------------
(* Exported operations *)

\* outcome: "ok", "noLocalIP" (getLocalIP fails) or "listenErr"
PrepareOp(s, outcome) ==
    IF outcome = "noLocalIP" THEN Return(s, FALSE, "noLocalIP")
    ELSE IF outcome = "listenErr" THEN Return([s EXCEPT !.conn = FALSE], FALSE, "listenErr")
    ELSE Return(passMessage([s EXCEPT !.conn = TRUE], "ready", FreshDevice), TRUE, "nil")

DiscoverOp(s, failTo) ==
    LET s1 == broadcastMessage(s, DiscoverMsg, failTo)
    IN  IF s1.ret.err # "nil" THEN [s1 EXCEPT !.ret = NoRet]
        ELSE [passMessage(s1, "discover", FreshDevice) EXCEPT !.ret = NoRet]

\* the orders in which a range over the registry can visit its keys
Orders(s) ==
    LET keys == DOMAIN s.Devices
        n == Cardinality(keys)
    IN  {p \in [1..n -> keys] : \A i, j \in 1..n : i # j => p[i] # p[j]}

\* variant of SubscribeOne: the test on Subscribed restored
SubscribeOneIfUnsubscribed(s, k, failTo) ==
    IF s.Devices[k].Subscribed = FALSE
    THEN SendMessage(s, SubscribePacket(s.Devices[k].MACAddress), EntryPtr(s, k), failTo)
    ELSE s

\* the body of Subscribe's loop for the key k
SubscribeOne(s, k, failTo) ==
    SendMessage(s, SubscribePacket(s.Devices[k].MACAddress), EntryPtr(s, k), failTo)

RECURSIVE SubscribeLoop(_, _, _)
SubscribeLoop(s, order, failTo) ==
    IF order = <<>> THEN s
    ELSE SubscribeLoop(SubscribeOne(s, Head(order), failTo), Tail(order), failTo)

SubscribeOp(s, order, failTo) ==
    [passMessage(SubscribeLoop(s, order, failTo), "subscribe", FreshDevice)
        EXCEPT !.ret = NoRet]

\* variant of QueryWanted: the test on Subscribed left out
QueryWantedUnqueried(d) == d.Queried = FALSE

\* the condition of Query's loop body
QueryWanted(d) == d.Queried = FALSE /\ d.Subscribed = TRUE

RECURSIVE QueryLoop(_, _, _)
QueryLoop(s, order, failTo) ==
    IF order = <<>> THEN s
    ELSE LET k == Head(order)
             s1 == IF QueryWanted(s.Devices[k])
                   THEN SendMessage(s, QueryPacket(s.Devices[k].MACAddress), EntryPtr(s, k), failTo)
                   ELSE s
         IN  QueryLoop(s1, Tail(order), failTo)

\* success and err start as (false, nil) and keep the result of the last send
QueryOp(s, order, failTo) ==
    LET s0 == Return(s, FALSE, "nil")
        s1 == QueryLoop(s0, order, failTo)
    IN  [passMessage(s1, "query", FreshDevice) EXCEPT !.ret = s1.ret]

\* variant of IsSocket: no test of the device type
IsSocketAlways(d) == d.DeviceType \in {SOCKET, ALLONE}

\* the test SetState makes before it writes or sends anything
IsSocket(d) == d.DeviceType = SOCKET

SetStateOp(s, macAdd, state, failTo) ==
    IF macAdd \notin DOMAIN s.Devices THEN Panic(s)
    ELSE IF IsSocket(s.Devices[macAdd])
    THEN LET s1 == [s EXCEPT !.Devices[macAdd].State = state]
             s2 == SendMessage(s1, SetStatePacket(macAdd, state), EntryPtr(s1, macAdd), failTo)
         IN  [passMessage(s2, "stateset", EntryPtr(s2, macAdd)) EXCEPT !.ret = s2.ret]
    ELSE Return(s, FALSE, "Can't set state on a non-socket")

-----------------------------------------------------------------------------
(* handleMessage *)

\* the characters of the bytes 32..126 (quote, backslash and backquote written 0x34, 0x92, 0x96)
Printable ==
    <<" ","!","0x34","#","$","%","&","'","(",")","*","+",",","-",".","/",
      "0","1","2","3","4","5","6","7","8","9",":",";","<","=",">","?",
      "@","A","B","C","D","E","F","G","H","I","J","K","L","M","N","O",
      "P","Q","R","S","T","U","V","W","X","Y","Z","[","0x92","]","^","_",
      "0x96","a","b","c","d","e","f","g","h","i","j","k","l","m","n","o",
      "p","q","r","s","t","u","v","w","x","y","z","{","|","}","~">>

\* string(b) for one byte: the character; the others are written 0x<decimal>
Chr(b) == IF b \in 32..126 THEN Printable[b - 31] ELSE "0x" \o ToString(b)

\* string(bytes)
BytesToString(b) == [i \in 1..Len(b) |-> Chr(b[i])]

MacPrefix == <<"a","c","c","f">>

\* "IRD0" in hex
MarkerIRD0 == <<"4","9","5","2","4","4","3","0">>

\* "SOC0" in hex
MarkerSOC0 == <<"5","3","4","f","4","3","3","0">>

CmdDiscover == <<"7","1","6","1">>

CmdSubscribe == <<"6","3","6","c">>

CmdRF == <<"6","4","6","3">>

CmdQuery == <<"7","2","7","4">>

CmdState == <<"7","3","6","6">>

CmdButton == <<"6","4","6","9">>

CmdLearn == <<"6","c","7","3">>

BlankSpaces == [i \in 1..32 |-> IF i % 2 = 1 THEN "2" ELSE "0"]

BlankFs == [i \in 1..32 |-> "f"]

SocketPrefix == <<"S","o","c","k","e","t"," ">>

AllOnePrefix == <<"A","l","l","O","n","e"," ">>

\* message[(len(message) - 1):]
LastBit(message) == message[Len(message)]

\* variant of DeviceExists: every discovery response is taken as a new device
DeviceExistsNever(s, macAdd) == FALSE

\* `_, exists := Devices[macAdd]` of the discovery case
DeviceExists(s, macAdd) == macAdd \in DOMAIN s.Devices

\* func exists
exists(s, macAdd) == macAdd \in DOMAIN s.Devices

\* variant of NewDevice: the two markers name each other's type
NewDeviceSwapped(s, type, addr, macAdd, message) ==
    [ID |-> s.deviceCount + 1, Name |-> <<>>,
     DeviceType |-> IF type = SOCKET THEN ALLONE ELSE SOCKET, IP |-> addr,
     MACAddress |-> macAdd, Subscribed |-> FALSE, Queried |-> FALSE, State |-> FALSE,
     RFSwitches |-> <<>>, LastIRMessage |-> <<>>, LastMessage |-> message]

NewDevice(s, type, addr, macAdd, message) ==
    [ID |-> s.deviceCount + 1, Name |-> <<>>, DeviceType |-> type, IP |-> addr,
     MACAddress |-> macAdd, Subscribed |-> FALSE, Queried |-> FALSE, State |-> FALSE,
     RFSwitches |-> <<>>, LastIRMessage |-> <<>>, LastMessage |-> message]

\* Devices[macAdd] = &Device{...} after deviceCount++
Register(s, d) ==
    [s EXCEPT !.deviceCount = @ + 1,
              !.Devices = [k \in DOMAIN @ \cup {d.MACAddress} |->
                              IF k = d.MACAddress THEN d ELSE @[k]]]

\* variant of Refresh: the State is read again from the response
RefreshState(s, macAdd, message) ==
    [s EXCEPT !.Devices[macAdd].LastMessage = message,
              !.Devices[macAdd].State = (LastBit(message) # "0")]

\* variant of Refresh: the record is reset to the unsubscribed, unqueried state
RefreshResetFlags(s, macAdd, message) ==
    [s EXCEPT !.Devices[macAdd].LastMessage = message,
              !.Devices[macAdd].Subscribed = FALSE,
              !.Devices[macAdd].Queried = FALSE]

\* variant of Refresh: the device type is read again from the response
RefreshRetype(s, macAdd, message) ==
    [s EXCEPT !.Devices[macAdd].LastMessage = message,
              !.Devices[macAdd].DeviceType =
                  IF Index(message, MarkerIRD0) > 0 THEN ALLONE
                  ELSE IF Index(message, MarkerSOC0) > 0 THEN SOCKET ELSE @]

\* a discovery response for a MAC already in the registry: only LastMessage is set
Refresh(s, macAdd, message) == [s EXCEPT !.Devices[macAdd].LastMessage = message]

HandleDiscovery(s, message, addr, macAdd) ==
    IF Index(message, MarkerIRD0) > 0
    THEN IF ~DeviceExists(s, macAdd)
         THEN LET s1 == Register(s, NewDevice(s, ALLONE, addr, macAdd, message))
              IN  passMessage(s1, "allonefound", EntryPtr(s1, macAdd))
         ELSE passMessage(Refresh(s, macAdd, message), "existingallonefound",
                          EntryPtr(s, macAdd))
    ELSE IF Index(message, MarkerSOC0) > 0
    THEN IF ~DeviceExists(s, macAdd)
         THEN LET d == [NewDevice(s, SOCKET, addr, macAdd, message)
                           EXCEPT !.State = (LastBit(message) # "0")]
                  s1 == Register(s, d)
              IN  passMessage(s1, "socketfound", EntryPtr(s1, macAdd))
         ELSE passMessage(Refresh(s, macAdd, message), "existingsocketfound",
                          EntryPtr(s, macAdd))
    ELSE IF macAdd \notin DOMAIN s.Devices THEN Panic(s)
    ELSE passMessage(Refresh(s, macAdd, message), "unknownhardwarefound",
                     EntryPtr(s, macAdd))

\* variant of HandleSubscribed: the library marks the device subscribed
HandleSubscribedMarks(s, message, macAdd) ==
    IF ~exists(s, macAdd) THEN Return(s, FALSE, "nil")
    ELSE LET s1 == [s EXCEPT !.Devices[macAdd].State = (LastBit(message) = "1"),
                             !.Devices[macAdd].Subscribed = TRUE,
                             !.Devices[macAdd].LastMessage = message]
         IN  Return(passMessage(s1, "subscribed", EntryPtr(s1, macAdd)), TRUE, "nil")

HandleSubscribed(s, message, macAdd) ==
    IF ~exists(s, macAdd) THEN Return(s, FALSE, "nil")
    ELSE LET s1 == [s EXCEPT !.Devices[macAdd].State = (LastBit(message) = "1"),
                             !.Devices[macAdd].LastMessage = message]
         IN  Return(passMessage(s1, "subscribed", EntryPtr(s1, macAdd)), TRUE, "nil")

\* variant of HandleQueried: the library marks the device queried
HandleQueriedMarks(s, message, macAdd) ==
    IF ~SliceOK(message, 140, 172) THEN Panic(s)
    ELSE IF macAdd \notin DOMAIN s.Devices THEN Panic(s)
    ELSE LET s1 == [s EXCEPT !.Devices[macAdd].Name = BytesToString(DecodeString(Slice(message, 140, 172))),
                             !.Devices[macAdd].Queried = TRUE,
                             !.Devices[macAdd].LastMessage = message]
         IN  Return(passMessage(s1, "queried", EntryPtr(s1, macAdd)), TRUE, "nil")

\* variant of HandleQueried: the name field is decoded whatever it holds
HandleQueriedDecodes(s, message, macAdd) ==
    IF ~SliceOK(message, 140, 172) THEN Panic(s)
    ELSE IF macAdd \notin DOMAIN s.Devices THEN Panic(s)
    ELSE LET s1 == [s EXCEPT !.Devices[macAdd].Name = BytesToString(DecodeString(Slice(message, 140, 172))),
                             !.Devices[macAdd].LastMessage = message]
         IN  Return(passMessage(s1, "queried", EntryPtr(s1, macAdd)), TRUE, "nil")

HandleQueried(s, message, macAdd) ==
    IF ~SliceOK(message, 140, 172) THEN Panic(s)
    ELSE IF macAdd \notin DOMAIN s.Devices THEN Panic(s)
    ELSE LET strName == Slice(message, 140, 172)
             strDecName == DecodeString(Slice(strName, 0, 32))
             name == IF strName = BlankSpaces \/ strName = BlankFs
                     THEN IF s.Devices[macAdd].DeviceType = SOCKET
                          THEN SocketPrefix \o macAdd
                          ELSE AllOnePrefix \o macAdd
                     ELSE BytesToString(strDecName)
             s1 == [s EXCEPT !.Devices[macAdd].Name = name,
                             !.Devices[macAdd].LastMessage = message]
         IN  Return(passMessage(s1, "queried", EntryPtr(s1, macAdd)), TRUE, "nil")

\* variant of HandleStateChanged: the State written locally is kept
HandleStateChangedKeeps(s, message, macAdd) ==
    IF macAdd \notin DOMAIN s.Devices THEN Panic(s)
    ELSE LET s1 == [s EXCEPT !.Devices[macAdd].LastMessage = message]
         IN  Return(passMessage(s1, "statechanged", EntryPtr(s1, macAdd)), TRUE, "nil")

HandleStateChanged(s, message, macAdd) ==
    IF macAdd \notin DOMAIN s.Devices THEN Panic(s)
    ELSE LET s1 == [s EXCEPT !.Devices[macAdd].State = (LastBit(message) # "0"),
                             !.Devices[macAdd].LastMessage = message]
         IN  Return(passMessage(s1, "statechanged", EntryPtr(s1, macAdd)), TRUE, "nil")

HandleButton(s, message, macAdd) ==
    IF macAdd \notin DOMAIN s.Devices THEN Panic(s)
    ELSE LET s1 == [s EXCEPT !.Devices[macAdd].LastMessage = message]
         IN  Return(passMessage(s1, "buttonpress", EntryPtr(s1, macAdd)), TRUE, "nil")

HandleLearned(s, message, macAdd) ==
    IF Len(message) >= 52
    THEN IF macAdd \notin DOMAIN s.Devices THEN Panic(s)
         ELSE LET s1 == [s EXCEPT !.Devices[macAdd].LastIRMessage = Slice(message, 52, Len(message)),
                                  !.Devices[macAdd].LastMessage = message]
              IN  Return(passMessage(s1, "ircode", EntryPtr(s1, macAdd)), TRUE, "nil")
    ELSE Return(s, TRUE, "nil")

handleMessage(s, message, addr) ==
    IF Len(message) = 0 THEN Return(s, FALSE, "Blank message")
    ELSE IF message = DiscoverMsg THEN Return(s, TRUE, "nil")
    ELSE IF ~SliceOK(message, 8, 12) THEN Panic(s)
    ELSE LET commandID == Slice(message, 8, 12)
             macStart == Index(message, MacPrefix)
         IN  IF ~SliceOK(message, macStart, macStart + 12) THEN Panic(s)
             ELSE LET macAdd == Slice(message, macStart, macStart + 12)
                  IN  CASE commandID = CmdDiscover ->
                             LET s1 == HandleDiscovery(s, message, addr, macAdd)
                             IN  IF s1.crashed THEN s1 ELSE Return(s1, TRUE, "nil")
                        [] commandID = CmdSubscribe -> HandleSubscribed(s, message, macAdd)
                        [] commandID = CmdRF ->
                             Return(passMessage(s, "rfswitch", EntryPtr(s, macAdd)), TRUE, "nil")
                        [] commandID = CmdQuery -> HandleQueried(s, message, macAdd)
                        [] commandID = CmdState -> HandleStateChanged(s, message, macAdd)
                        [] commandID = CmdButton -> HandleButton(s, message, macAdd)
                        [] commandID = CmdLearn -> HandleLearned(s, message, macAdd)
                        [] OTHER -> Return(s, TRUE, "nil")

\* variant of CheckForMessagesOp: the source address is not looked at
CheckForMessagesOpAnySource(s, dg) ==
    IF Len(dg.data) > 0
    THEN handleMessage(Return(s, FALSE, "nil"), EncodeToString(dg.data), dg.addr)
    ELSE Return(s, FALSE, "nil")

\* dg: the datagram ReadFromUDP returns, [data |-> bytes, addr |-> source]
CheckForMessagesOp(s, dg) ==
    LET n == Len(dg.data)
    IN  IF n > 0 /\ dg.addr.IP # LocalIP
        THEN handleMessage(Return(s, FALSE, "nil"), EncodeToString(dg.data), dg.addr)
        ELSE Return(s, FALSE, "nil")

-----------------------------------------------------------------------------
(* EmitRF *)

RECURSIVE EmitRFLoop(_, _, _, _, _, _)
EmitRFLoop(s, order, na, nb, RF, failTo) ==
    IF order = <<>> THEN s
    ELSE LET k == Head(order)
             mac == s.Devices[k].MACAddress
             s1 == IF s.Devices[k].DeviceType = ALLONE
                   THEN SendMessage(s, EmitRFPacket(mac, na, nb, RF), EntryPtr(s, k), failTo)
                   ELSE s
         IN  EmitRFLoop(s1, Tail(order), na, nb, RF, failTo)

\* na, nb: the two values rand.Intn(255) returns
EmitRFOp(s, RF, macAdd, na, nb, order, failTo) ==
    LET s1 == IF macAdd = ALL THEN EmitRFLoop(s, order, na, nb, RF, failTo)
              ELSE IF macAdd \notin DOMAIN s.Devices THEN Panic(s)
              ELSE IF s.Devices[macAdd].DeviceType = ALLONE
                   THEN SendMessage(s, EmitRFPacket(macAdd, na, nb, RF), EntryPtr(s, macAdd), failTo)
                   ELSE s
    IN  [s1 EXCEPT !.ret = NoRet]

-----------------------------------------------------------------------------
(* EmitIR *)

\* variant of IsAllOne: every device is taken for an AllOne
IsAllOneAlways(d) == d.DeviceType \in {SOCKET, ALLONE}

\* the test EmitIR makes before it sends
IsAllOne(d) == d.DeviceType = ALLONE

RECURSIVE EmitIRLoop(_, _, _, _, _, _)
EmitIRLoop(s, order, na, nb, IR, failTo) ==
    IF order = <<>> THEN s
    ELSE LET k == Head(order)
             mac == s.Devices[k].MACAddress
             s1 == IF IsAllOne(s.Devices[k])
                   THEN SendMessage(s, EmitIRPacket(mac, na, nb, IR), EntryPtr(s, k), failTo)
                   ELSE s
         IN  EmitIRLoop(s1, Tail(order), na, nb, IR, failTo)

\* na, nb: the two values rand.Intn(255) returns
EmitIROp(s, IR, macAdd, na, nb, order, failTo) ==
    LET s1 == IF macAdd = ALL THEN EmitIRLoop(s, order, na, nb, IR, failTo)
              ELSE IF macAdd \notin DOMAIN s.Devices THEN Panic(s)
              ELSE IF IsAllOne(s.Devices[macAdd])
                   THEN SendMessage(s, EmitIRPacket(macAdd, na, nb, IR), EntryPtr(s, macAdd), failTo)
                   ELSE s
    IN  [s1 EXCEPT !.ret = NoRet]

-----------------------------------------------------------------------------
(* EnterLearningMode *)

\* the body of both branches: send to an AllOne, then publish irlearnmode
LearnOne(s, k, failTo) ==
    IF s.Devices[k].DeviceType = ALLONE
    THEN LET s1 == SendMessage(s, LearnPacket(s.Devices[k].MACAddress), EntryPtr(s, k), failTo)
         IN  passMessage(s1, "irlearnmode", EntryPtr(s1, k))
    ELSE s

RECURSIVE LearnLoop(_, _, _)
LearnLoop(s, order, failTo) ==
    IF order = <<>> THEN s
    ELSE LearnLoop(LearnOne(s, Head(order), failTo), Tail(order), failTo)

EnterLearningModeOp(s, macAdd, order, failTo) ==
    LET s1 == IF macAdd = ALL THEN LearnLoop(s, order, failTo)
              ELSE IF macAdd \notin DOMAIN s.Devices THEN Panic(s)
              ELSE LearnOne(s, macAdd, failTo)
    IN  [s1 EXCEPT !.ret = NoRet]

-----------------------------------------------------------------------------
(* EnterRFLearningMode *)

\* no test of the device's type and none of its presence: Devices[macAdd] is nil
\* for a MAC that is not registered, and SendMessage dereferences it
EnterRFLearningModeOp(s, macAdd, failTo) ==
    IF macAdd \notin DOMAIN s.Devices THEN Panic(s)
    ELSE LET s1 == SendMessage(s, RFLearnPacket(macAdd), EntryPtr(s, macAdd), failTo)
         IN  [passMessage(s1, "rflearnmode", EntryPtr(s1, macAdd)) EXCEPT !.ret = NoRet]

-----------------------------------------------------------------------------
(* The client: the event handlers of the example program *)

\* the switch on msg.Name, run to completion on the client's one thread;
\* o1, o2: the iteration orders of the first and second registry loop it runs
Handler(s, msg, o1, o2, na, nb, failTo) ==
    LET p == msg.DeviceInfo
        name == msg.Name
    IN  IF name \in {"existingsocketfound", "existingallonefound", "socketfound", "allonefound"}
        THEN IF p.kind = "nil" THEN Panic(s)
             ELSE QueryOp(SubscribeOp(s, o1, failTo), o2, failTo)
        ELSE IF name = "subscribed"
        THEN IF p.kind # "entry" THEN Panic(s)
             ELSE IF s.Devices[p.mac].Subscribed = FALSE
                  THEN LET s1 == [s EXCEPT !.Devices[s.Devices[p.mac].MACAddress].Subscribed = TRUE]
                       IN  QueryOp(QueryOp(s1, o1, failTo), o2, failTo)
                  ELSE QueryOp(s, o1, failTo)
        ELSE IF name = "queried"
        THEN IF p.kind # "entry" THEN Panic(s)
             ELSE LET s1 == IF s.Devices[p.mac].Queried = FALSE
                            THEN [s EXCEPT !.Devices[s.Devices[p.mac].MACAddress].Queried = TRUE]
                            ELSE s
                  IN  EmitRFOp(s1, ExampleRF, s1.Devices[p.mac].MACAddress, na, nb, o1, failTo)
        ELSE IF name \in {"stateset", "irlearnmode", "unknownhardwarefound", "buttonpress",
                          "ircode", "rfswitch", "statechanged"}
        THEN IF p.kind = "nil" THEN Panic(s) ELSE [s EXCEPT !.ret = NoRet]
        ELSE [s EXCEPT !.ret = NoRet]

-----------------------------------------------------------------------------
(* The datagrams the network delivers *)

AddrOf(mac) == IF mac = MAC1 THEN ADDR1 ELSE ADDR2

\* "SOC002", "IRD005" and "KEP001" in hex: the class field of a discovery response
ClassSocket == <<"5","3","4","f","4","3","3","0","3","0","3","2">>

ClassAllOne == <<"4","9","5","2","4","4","3","0","3","0","3","5">>

ClassOther == <<"4","b","4","5","5","0","3","0","3","0","3","1">>

Zeros(n) == [i \in 1..n |-> "0"]

StateByte(on) == IF on THEN <<"0","1">> ELSE <<"0","0">>

\* "Lamp" followed by twelve spaces, in hex
NameLamp == <<"4","c","6","1","6","d","7","0">> \o [i \in 1..24 |-> IF i % 2 = 1 THEN "2" ELSE "0"]

Datagram(hex, addr) == [data |-> DecodeString(hex), addr |-> addr]

DiscoveryResponse(mac, class, on) ==
    Datagram(<<"6","8","6","4","0","0","2","a","7","1","6","1","0","0">> \o mac \o twenties \o reverseMAC(mac) \o twenties
                 \o class \o Zeros(8) \o StateByte(on), AddrOf(mac))

SubscribeConfirmation(mac, on) ==
    Datagram(<<"6","8","6","4","0","0","1","8","6","3","6","c">> \o mac \o twenties \o Zeros(10) \o StateByte(on), AddrOf(mac))

QueryResponse(mac, nameField) ==
    Datagram(<<"6","8","6","4","0","0","5","6","7","2","7","4">> \o mac \o twenties \o Zeros(104) \o nameField, AddrOf(mac))

ShortQueryResponse(mac) ==
    Datagram(<<"6","8","6","4","0","0","1","2","7","2","7","4">> \o mac \o twenties, AddrOf(mac))

StateChange(mac, on) ==
    Datagram(<<"6","8","6","4","0","0","1","7","7","3","6","6">> \o mac \o twenties \o Zeros(8) \o StateByte(on), AddrOf(mac))

\* a datagram of command 6463, the shape of the state command a socket is sent
RFSwitchPress(mac, on) ==
    Datagram(<<"6","8","6","4","0","0","1","7","6","4","6","3">> \o mac \o twenties \o Zeros(8) \o StateByte(on), AddrOf(mac))

ButtonPress(mac) ==
    Datagram(<<"6","8","6","4","0","0","1","8","6","4","6","9">> \o mac \o twenties \o Zeros(12), AddrOf(mac))

\* a learned IR code: 52 hex digits of header, then the code
LearnedCode(mac) ==
    Datagram(<<"6","8","6","4","0","0","1","c","6","c","7","3">> \o mac \o twenties \o Zeros(16)
                 \o <<"a","a","b","b">>, AddrOf(mac))

\* a command code the switch of handleMessage does not list, with and without a MAC
UnknownCommand(mac) ==
    Datagram(<<"6","8","6","4","0","0","1","2","7","a","7","a">> \o mac \o twenties, AddrOf(mac))

UnknownCommandNoMac ==
    Datagram(<<"6","8","6","4","0","0","0","8","7","a","7","a","0","0","0","0">>, ADDR2)

\* two bytes: shorter than the command code
Truncated == Datagram(<<"6","8","6","4">>, ADDR2)

\* a read that returns no bytes
EmptyDatagram == [data |-> <<>>, addr |-> ADDR2]

\* the address a device answers from after its lease has changed
ADDR3 == UDPAddr("192.168.1.20")

\* the traffic of the devices on the network
Datagrams ==
    {DiscoveryResponse(MAC1, ClassSocket, TRUE),
     [DiscoveryResponse(MAC1, ClassAllOne, FALSE) EXCEPT !.addr = ADDR3],
     DiscoveryResponse(MAC2, ClassAllOne, FALSE), DiscoveryResponse(MAC2, ClassOther, FALSE),
     SubscribeConfirmation(MAC1, TRUE), SubscribeConfirmation(MAC2, FALSE),
     QueryResponse(MAC1, NameLamp),
     ShortQueryResponse(MAC1),
     \* another controller's discovery broadcast
     Datagram(DiscoverMsg, ADDR2)}

\* every kind of message the one device MAC1 can send, as a socket or as an AllOne
DatagramsOfOne ==
    {DiscoveryResponse(MAC1, ClassSocket, TRUE),
     [DiscoveryResponse(MAC1, ClassAllOne, FALSE) EXCEPT !.addr = ADDR3],
     SubscribeConfirmation(MAC1, TRUE), QueryResponse(MAC1, NameLamp),
     StateChange(MAC1, FALSE), RFSwitchPress(MAC1, FALSE),
     ButtonPress(MAC1), LearnedCode(MAC1)}

\* everything else port 10000 can receive
OtherDatagrams ==
    {StateChange(MAC1, FALSE), RFSwitchPress(MAC1, FALSE),
     ButtonPress(MAC1), LearnedCode(MAC1),
     UnknownCommand(MAC1), UnknownCommandNoMac, Truncated, EmptyDatagram,
     \* query responses of devices that were never named
     QueryResponse(MAC1, BlankSpaces), QueryResponse(MAC2, BlankFs),
     \* a discovery response that carries this machine's own address as its source
     [DiscoveryResponse(MAC2, ClassAllOne, FALSE) EXCEPT !.addr = UDPAddr(LocalIP)]}

-----------------------------------------------------------------------------
(* Actions *)

\* the record of the operation an action ran
NoDatagram == [data |-> <<>>, addr |-> NilAddr]

Op(name) == [op |-> name, mac |-> <<>>, state |-> FALSE, ev |-> "", dg |-> NoDatagram]

\* the sets of destinations to which writes may fail during one operation that
\* sends to the registered devices among macs
FailSetsFor(s, macs) == SUBSET {s.Devices[k].IP : k \in macs \cap DOMAIN s.Devices}

FailSets(s) == FailSetsFor(s, DOMAIN s.Devices)


\* the resubscribe goroutine between two calls of Subscribe
Waiting == [pc |-> "wait", todo |-> <<>>]

Init ==
    /\ Devices = <<>>
    /\ deviceCount = 0
    /\ Events = <<>>
    /\ conn = FALSE
    /\ sent = <<>>
    /\ passed = <<>>
    /\ dropped = <<>>
    /\ ret = NoRet
    /\ lastOp = Op("init")
    /\ crashed = FALSE
    /\ received = 0
    /\ pcMain = "start"
    /\ resubscribe = Waiting
    /\ pending = {}

Prepare ==
    /\ ~crashed
    \* the client calls Prepare first, and again only while it has no connection
    /\ ~conn
    /\ \E outcome \in {"ok", "noLocalIP", "listenErr"} :
         Commit(PrepareOp(Begin, outcome))
    /\ lastOp' = Op("Prepare")
    /\ UNCHANGED <<received, pcMain, resubscribe, pending>>

Discover ==
    /\ ~crashed
    /\ \E failTo \in {{}, {BCAST}} : Commit(DiscoverOp(Begin, failTo))
    /\ lastOp' = Op("Discover")
    /\ UNCHANGED <<received, pcMain, resubscribe, pending>>

Subscribe ==
    /\ ~crashed
    /\ \E order \in Orders(Cur), failTo \in FailSets(Cur) :
         Commit(SubscribeOp(Begin, order, failTo))
    /\ lastOp' = Op("Subscribe")
    /\ UNCHANGED <<received, pcMain, resubscribe, pending>>

Query ==
    /\ ~crashed
    /\ \E order \in Orders(Cur), failTo \in FailSetsFor(Cur, {k \in DOMAIN Devices : QueryWanted(Devices[k])}) :
         Commit(QueryOp(Begin, order, failTo))
    /\ lastOp' = Op("Query")
    /\ UNCHANGED <<received, pcMain, resubscribe, pending>>

SetState ==
    /\ ~crashed
    /\ \E macAdd \in MACs, state \in BOOLEAN :
         \E failTo \in FailSetsFor(Cur, {macAdd}) :
            /\ Commit(SetStateOp(Begin, macAdd, state, failTo))
            /\ lastOp' = [Op("SetState") EXCEPT !.mac = macAdd, !.state = state]
    /\ UNCHANGED <<received, pcMain, resubscribe, pending>>

EnterLearningMode ==
    /\ ~crashed
    /\ \E macAdd \in MACs \cup {ALL} :
         \E order \in (IF macAdd = ALL THEN Orders(Cur) ELSE {<<>>}),
            failTo \in (IF macAdd = ALL THEN FailSetsFor(Cur, {k \in DOMAIN Devices : IsAllOne(Devices[k])})
                                        ELSE FailSetsFor(Cur, {macAdd})) :
            /\ Commit(EnterLearningModeOp(Begin, macAdd, order, failTo))
            /\ lastOp' = [Op("EnterLearningMode") EXCEPT !.mac = macAdd]
    /\ UNCHANGED <<received, pcMain, resubscribe, pending>>

EmitIR ==
    /\ ~crashed
    /\ \E macAdd \in MACs \cup {ALL}, rnd \in Nonces :
         \E order \in (IF macAdd = ALL THEN Orders(Cur) ELSE {<<>>}),
            failTo \in (IF macAdd = ALL THEN FailSetsFor(Cur, {k \in DOMAIN Devices : IsAllOne(Devices[k])})
                                        ELSE FailSetsFor(Cur, {macAdd})) :
            /\ Commit(EmitIROp(Begin, ExampleIR, macAdd, rnd[1], rnd[2], order, failTo))
            /\ lastOp' = [Op("EmitIR") EXCEPT !.mac = macAdd]
    /\ UNCHANGED <<received, pcMain, resubscribe, pending>>

\* EmitIR and EmitRF of a short or a long code, to one device
EmitCode ==
    /\ ~crashed
    /\ \E macAdd \in MACs, rnd \in Nonces, code \in {ExampleRF, LongCode}, ir \in BOOLEAN :
         /\ IF ir THEN Commit(EmitIROp(Begin, code, macAdd, rnd[1], rnd[2], <<>>, {}))
                  ELSE Commit(EmitRFOp(Begin, code, macAdd, rnd[1], rnd[2], <<>>, {}))
         /\ lastOp' = [Op(IF ir THEN "EmitIR" ELSE "EmitRF") EXCEPT !.mac = macAdd]
    /\ UNCHANGED <<received, pcMain, resubscribe, pending>>

EnterRFLearningMode ==
    /\ ~crashed
    /\ \E macAdd \in MACs :
         \E failTo \in FailSetsFor(Cur, {macAdd}) :
            /\ Commit(EnterRFLearningModeOp(Begin, macAdd, failTo))
            /\ lastOp' = [Op("EnterRFLearningMode") EXCEPT !.mac = macAdd]
    /\ UNCHANGED <<received, pcMain, resubscribe, pending>>

\* one call of CheckForMessages that reads a datagram of D: it blocks until a
\* datagram arrives, or returns at once when there is no connection to read from
Receive(D) ==
    /\ ~crashed
    /\ IF conn
       THEN /\ received < MaxDatagrams
            /\ received' = received + 1
            /\ UNCHANGED <<pcMain, resubscribe, pending>>
            /\ \E dg \in D :
                 /\ Commit(CheckForMessagesOp(Begin, dg))
                 /\ lastOp' = [Op("CheckForMessages") EXCEPT !.dg = dg]
       ELSE /\ Commit(Return(Begin, FALSE, "nil"))
            /\ lastOp' = Op("CheckForMessages")
            /\ UNCHANGED <<received, pcMain, resubscribe, pending>>

\* CheckForMessages on a network that carries only the devices' traffic
CheckForMessages == Receive(Datagrams)

\* CheckForMessages on a network that carries any traffic
CheckForAnyMessages == Receive(Datagrams \cup OtherDatagrams)

\* CheckForMessages on a network with the one device MAC1
CheckForMessagesOfOne == Receive(DatagramsOfOne)

\* CheckForMessages on a network with a socket and an AllOne that answer discovery
\* and subscription
DatagramsOfTwo ==
    {DiscoveryResponse(MAC1, ClassSocket, TRUE), DiscoveryResponse(MAC2, ClassAllOne, FALSE),
     SubscribeConfirmation(MAC1, TRUE)}

CheckForMessagesOfTwo == Receive(DatagramsOfTwo)

\* the events whose handler runs registry loops, and the one whose handler emits RF
LoopEvents ==
    {"existingsocketfound", "existingallonefound", "socketfound", "allonefound", "subscribed"}

\* the client takes the event out of the channel and runs its handler
Consume ==
    /\ ~crashed
    /\ Events # <<>>
    /\ LET msg == Head(Events)
           sends == msg.Name \in LoopEvents \cup {"queried"}
           one == CHOOSE o \in Orders(Cur) : TRUE
       IN  \E o1 \in Orders(Cur),
              o2 \in IF msg.Name \in LoopEvents THEN Orders(Cur) ELSE {one},
              rnd \in IF msg.Name = "queried" THEN Nonces ELSE {<<0, 0>>},
              failTo \in IF sends THEN FailSets(Cur) ELSE {{}} :
             Commit(Handler([Begin EXCEPT !.Events = Tail(@)], msg, o1, o2,
                            rnd[1], rnd[2], failTo))
    /\ lastOp' = [Op("Consume") EXCEPT !.ev = Head(Events).Name]
    /\ UNCHANGED <<received, pcMain, resubscribe, pending>>

-----------------------------------------------------------------------------
(* The example program: main's loop and the two goroutines setInterval starts *)

\* the devices of the network the program runs on
Network == {MAC1}

\* the discovery response of the device m: MAC1 is a socket, MAC2 an AllOne
Hello(m) == DiscoveryResponse(m, IF m = MAC1 THEN ClassSocket ELSE ClassAllOne, m = MAC1)

\* what the devices send back for one write of the program
AnswerTo(p) ==
    IF ~p.ok THEN {}
    ELSE IF p.data = DecodeMsg(DiscoverMsg)
    THEN {Hello(m) : m \in Network}
    ELSE {SubscribeConfirmation(m, m = MAC1) : m \in {k \in Network : p.data = DecodeMsg(SubscribePacket(k))}}
         \cup {QueryResponse(m, NameLamp) : m \in {k \in Network : p.data = DecodeMsg(QueryPacket(k))}}

Answers(log) == UNION {AnswerTo(log[i]) : i \in 1..Len(log)}

\* main: orvibo.Prepare(); the program ends when it fails
MainPrepare ==
    /\ ~crashed
    /\ pcMain = "start"
    /\ \E outcome \in {"ok", "noLocalIP", "listenErr"} :
         /\ Commit(PrepareOp(Begin, outcome))
         /\ pcMain' = IF outcome = "ok" THEN "discover" ELSE "start"
    /\ lastOp' = Op("Prepare")
    /\ UNCHANGED <<received, resubscribe, pending>>

\* main: the two setInterval calls have started the goroutines; orvibo.Discover()
MainDiscover ==
    /\ ~crashed
    /\ pcMain = "discover"
    /\ Commit(DiscoverOp(Begin, {}))
    /\ pending' = pending \cup Answers(sent')
    /\ pcMain' = "select"
    /\ lastOp' = Op("Discover")
    /\ UNCHANGED <<received, resubscribe>>

\* main: the select finds an event in the channel and runs its case
MainConsume ==
    /\ ~crashed
    /\ pcMain = "select"
    /\ Events # <<>>
    /\ LET msg == Head(Events)
           one == CHOOSE o \in Orders(Cur) : TRUE
       IN  \E o1 \in Orders(Cur),
              o2 \in IF msg.Name \in LoopEvents THEN Orders(Cur) ELSE {one},
              rnd \in IF msg.Name = "queried" THEN Nonces ELSE {<<0, 0>>} :
             Commit(Handler([Begin EXCEPT !.Events = Tail(@)], msg, o1, o2,
                            rnd[1], rnd[2], {}))
    /\ pending' = pending \cup Answers(sent')
    /\ lastOp' = [Op("Consume") EXCEPT !.ev = Head(Events).Name]
    /\ UNCHANGED <<received, pcMain, resubscribe>>

\* main: the select finds the channel empty and calls CheckForMessages, which
\* blocks in ReadFromUDP
MainPoll ==
    /\ ~crashed
    /\ pcMain = "select"
    /\ Events = <<>>
    /\ pcMain' = "read"
    /\ UNCHANGED <<Devices, deviceCount, Events, conn, sent, passed, dropped, ret, lastOp,
                   crashed, received, resubscribe, pending>>

\* main: ReadFromUDP returns the datagram dg and CheckForMessages handles it.
\* An insertion into the registry while the resubscribe goroutine ranges over it is
\* a data race on the map: the runtime may stop the process (fatal error: concurrent
\* map iteration and map write), or the range may or may not visit the new key.
MainReadOf(dg) ==
    /\ ~crashed
    /\ pcMain = "read"
    /\ dg \in pending
    /\ LET s == CheckForMessagesOp(Begin, dg)
           new == DOMAIN s.Devices \ DOMAIN Devices
       IN  IF resubscribe.pc = "range" /\ new # {}
           THEN \E outcome \in {"fatal", "seen", "unseen"} :
                  /\ Commit(IF outcome = "fatal" THEN Panic(s) ELSE s)
                  /\ resubscribe' = IF outcome = "seen"
                                    THEN [resubscribe EXCEPT !.todo = Append(@, CHOOSE k \in new : TRUE)]
                                    ELSE resubscribe
           ELSE Commit(s) /\ UNCHANGED resubscribe
    /\ pending' = pending \ {dg}
    /\ pcMain' = "select"
    /\ lastOp' = [Op("CheckForMessages") EXCEPT !.dg = dg]
    /\ UNCHANGED received

\* every datagram the devices can send
Responses ==
    {Hello(m) : m \in Network}
        \cup {SubscribeConfirmation(m, m = MAC1) : m \in Network}
        \cup {QueryResponse(m, NameLamp) : m \in Network}

MainRead == \E dg \in Responses : MainReadOf(dg)

\* the autoDiscover goroutine: its timer fires and it calls orvibo.Discover
AutoDiscover ==
    /\ ~crashed
    /\ pcMain # "start"
    /\ Commit(DiscoverOp(Begin, {}))
    /\ pending' = pending \cup Answers(sent')
    /\ lastOp' = Op("AutoDiscover")
    /\ UNCHANGED <<received, pcMain, resubscribe>>

\* the resubscribe goroutine: its timer fires, it calls orvibo.Subscribe, whose
\* range over the registry starts
ResubscribeRange ==
    /\ ~crashed
    /\ pcMain # "start"
    /\ resubscribe.pc = "wait"
    /\ \E order \in Orders(Cur) : resubscribe' = [pc |-> "range", todo |-> order]
    /\ UNCHANGED <<Devices, deviceCount, Events, conn, sent, passed, dropped, ret, lastOp,
                   crashed, received, pcMain, pending>>

\* the resubscribe goroutine: one pass of the loop body
ResubscribeSend ==
    /\ ~crashed
    /\ resubscribe.pc = "range"
    /\ resubscribe.todo # <<>>
    /\ Commit(SubscribeOne(Begin, Head(resubscribe.todo), {}))
    /\ pending' = pending \cup Answers(sent')
    /\ resubscribe' = [resubscribe EXCEPT !.todo = Tail(@)]
    /\ lastOp' = Op("Resubscribe")
    /\ UNCHANGED <<received, pcMain>>

\* the resubscribe goroutine: the range is over, Subscribe publishes its event and
\* returns
ResubscribeDone ==
    /\ ~crashed
    /\ resubscribe.pc = "range"
    /\ resubscribe.todo = <<>>
    /\ Commit([passMessage(Begin, "subscribe", FreshDevice) EXCEPT !.ret = NoRet])
    /\ resubscribe' = Waiting
    /\ lastOp' = Op("Resubscribe")
    /\ UNCHANGED <<received, pcMain, pending>>

NextProgram ==
    \/ MainPrepare
    \/ MainDiscover
    \/ MainConsume
    \/ MainPoll
    \/ MainRead
    \/ AutoDiscover
    \/ ResubscribeRange
    \/ ResubscribeSend
    \/ ResubscribeDone

SpecProgram == Init /\ [][NextProgram]_vars

\* the Go scheduler runs every goroutine that can run, both timers fire again and
\* again but leave main the time to find the channel empty and poll, and every
\* datagram in the socket's queue is read after finitely many reads
SpecProgramFair ==
    /\ SpecProgram
    /\ WF_vars(MainPrepare \/ MainDiscover \/ MainConsume \/ MainPoll)
    /\ SF_vars(MainPoll)
    /\ \A dg \in Responses : SF_vars(MainReadOf(dg))
    /\ WF_vars(AutoDiscover)
    /\ WF_vars(ResubscribeRange \/ ResubscribeSend \/ ResubscribeDone)

Next ==
    \/ Prepare
    \/ Discover
    \/ Subscribe
    \/ Query
    \/ SetState
    \/ EnterLearningMode
    \/ CheckForMessages
    \/ Consume

Spec == Init /\ [][Next]_vars

\* a client that sets states and polls, on a network that carries any traffic
NextTraffic ==
    \/ Prepare
    \/ SetState
    \/ CheckForAnyMessages
    \/ Consume

SpecTraffic == Init /\ [][NextTraffic]_vars

\* every operation of the library, on a network with one device
NextOne ==
    \/ Prepare
    \/ Discover
    \/ Subscribe
    \/ Query
    \/ SetState
    \/ EnterLearningMode
    \/ EmitIR
    \/ CheckForMessagesOfOne
    \/ Consume

SpecOne == Init /\ [][NextOne]_vars

\* a client that emits IR codes while devices are discovered
NextEmit ==
    \/ Prepare
    \/ EmitIR
    \/ CheckForMessages
    \/ Consume

SpecEmit == Init /\ [][NextEmit]_vars

\* a client that calls every operation that sends, with a socket and an AllOne
NextPackets ==
    \/ Prepare
    \/ Discover
    \/ Subscribe
    \/ Query
    \/ SetState
    \/ EnterLearningMode
    \/ EnterRFLearningMode
    \/ EmitCode
    \/ CheckForMessagesOfTwo
    \/ Consume

SpecPackets == Init /\ [][NextPackets]_vars

-----------------------------------------------------------------------------
(* Reading the log of an operation *)

\* the operations of the library's public surface that the model runs
PublicOps ==
    {"Prepare", "Discover", "Subscribe", "Query", "SetState", "EnterLearningMode",
     "CheckForMessages"}

\* the two command bytes of a packet (bytes 5 and 6), <<>> when it is too short
CommandOf(data) == IF Len(data) >= 6 THEN <<data[5], data[6]>> ELSE <<>>

\* "cl", "rt" and "qa" in bytes
ClBytes == <<99, 108>>

RtBytes == <<114, 116>>

QaBytes == <<113, 97>>

\* the MAC field of a packet in hex, <<>> when it is too short: bytes 7 to 12, and
\* bytes 8 to 13 of a discovery response
MacOf(data) ==
    IF CommandOf(data) = QaBytes
    THEN IF Len(data) >= 13 THEN EncodeToString(SubSeq(data, 8, 13)) ELSE <<>>
    ELSE IF Len(data) >= 12 THEN EncodeToString(SubSeq(data, 7, 12)) ELSE <<>>

\* the positions of `sent` that hold a packet of command cmd addressed to the device mac
SentTo(cmd, mac) ==
    {i \in DOMAIN sent : /\ CommandOf(sent[i].data) = cmd
                         /\ MacOf(sent[i].data) = mac
                         /\ mac \in DOMAIN Devices
                         /\ sent[i].to = Devices[mac].IP}

\* the positions of `sent` that hold a packet of command cmd
SentCmd(cmd) == {i \in DOMAIN sent : CommandOf(sent[i].data) = cmd}

\* the last step was CheckForMessages handling a datagram of command cmd, not
\* sent by this machine, from a device whose MAC was in the registry before the step
Handled(cmd) ==
    /\ lastOp'.op = "CheckForMessages"
    /\ lastOp'.dg.addr.IP # LocalIP
    /\ CommandOf(lastOp'.dg.data) = cmd
    /\ MacOf(lastOp'.dg.data) \in DOMAIN Devices
    /\ ~crashed

-----------------------------------------------------------------------------
(* C1 *)

\* C1: the event slot holds at most one event; a publication made while the slot
\* is full is discarded without blocking and the held event is left as it was, and
\* a publication made while the slot is empty is placed in it.
C1_SingleSlot ==
    [][ /\ Len(Events) <= 1
        /\ Len(Events') <= 1
        /\ LET start == IF lastOp'.op = "Consume" THEN Tail(Events) ELSE Events
           IN  IF start # <<>>
               THEN Events' = start /\ dropped' = passed'
               ELSE IF passed' = <<>>
               THEN Events' = <<>> /\ dropped' = <<>>
               ELSE /\ Len(Events') = 1
                    /\ Events'[1].Name = passed'[1]
                    /\ dropped' = Tail(passed') ]_vars

\* an operation placed its first event in the empty slot and lost a later one
C1_Witness ==
    /\ Len(Events) = 1
    /\ dropped # <<>>
    /\ Len(passed) > Len(dropped)
    /\ Events[1].Name = passed[1]

-----------------------------------------------------------------------------
(* C2 *)

\* C2: (as the specification states it) a client that empties the slot before
\* every call of the library sees every event: an operation that starts with the
\* slot empty loses none of the events it publishes.
C2_EmptySlotLosesNothing ==
    [][ (Events = <<>> /\ lastOp'.op \in PublicOps) => dropped' = <<>> ]_vars

-----------------------------------------------------------------------------
(* C3 *)

-----------------------------------------------------------------------------
(* C4 *)

\* C4: a query command goes only to entries with Subscribed true and Queried
\* false, and Query sends exactly one to each such entry and none to the others.
C4_QueryTargets ==
    /\ \A i \in SentCmd(RtBytes) :
          LET m == MacOf(sent[i].data)
          IN  m \in DOMAIN Devices /\ Devices[m].Subscribed /\ ~Devices[m].Queried
    /\ (lastOp.op = "Query" /\ ~crashed) =>
          /\ \A m \in DOMAIN Devices :
                Cardinality(SentTo(RtBytes, m)) =
                    IF Devices[m].Subscribed /\ ~Devices[m].Queried THEN 1 ELSE 0
          /\ Len(sent) = Cardinality(SentCmd(RtBytes))

\* Query has sent to a subscribed, unqueried device and passed over an unsubscribed one
C4_Witness ==
    /\ lastOp.op = "Query"
    /\ \E m \in DOMAIN Devices : SentTo(RtBytes, m) # {}
    /\ \E m \in DOMAIN Devices : ~Devices[m].Subscribed /\ SentTo(RtBytes, m) = {}

-----------------------------------------------------------------------------
(* C5 *)

\* the state bit at the end of a datagram
CarriedState(data) == data[Len(data)] % 2 = 1

\* C5: (as the specification states it) handling a subscribe confirmation for a
\* registered MAC sets the device's Subscribed flag and sets its State to the
\* state bit at the end of the payload.
C5_ConfirmationSetsSubscribed ==
    [][ Handled(ClBytes) =>
          LET m == MacOf(lastOp'.dg.data)
          IN  /\ Devices'[m].Subscribed
              /\ Devices'[m].State = CarriedState(lastOp'.dg.data) ]_vars

\* C5 (amended): handling a subscribe confirmation for a registered MAC sets the
\* device's State to the state bit at the end of the payload, records the message
\* and publishes "subscribed"; it leaves Subscribed as it was (the client's handler
\* of "subscribed" is what sets the flag).
C5_ConfirmationSetsState ==
    [][ Handled(ClBytes) =>
          LET m == MacOf(lastOp'.dg.data)
          IN  /\ Devices' = [Devices EXCEPT
                              ![m].State = CarriedState(lastOp'.dg.data),
                              ![m].LastMessage = EncodeToString(lastOp'.dg.data)]
              /\ Devices'[m].Subscribed = Devices[m].Subscribed
              /\ passed' = <<"subscribed">>
              /\ ret' = [ok |-> TRUE, err |-> "nil"] ]_vars

\* a confirmation carrying "on" has just been handled for a device that was off and
\* is still not marked subscribed
C5_Witness ==
    /\ lastOp.op = "CheckForMessages"
    /\ CommandOf(lastOp.dg.data) = ClBytes
    /\ \E m \in DOMAIN Devices :
          /\ m = MacOf(lastOp.dg.data)
          /\ Devices[m].State
          /\ ~Devices[m].Subscribed
          /\ Devices[m].DeviceType = ALLONE
    /\ "subscribed" \in {passed[i] : i \in DOMAIN passed}

-----------------------------------------------------------------------------
(* C6 *)

\* the bytes of the name field of a query response (hex positions 140 to 172)
NameBytes(data) == SubSeq(data, 71, 86)

\* "Lamp" followed by twelve spaces
LampName == <<"L","a","m","p"," "," "," "," "," "," "," "," "," "," "," "," ">>

\* C6: (as the specification states it) handling a query response for a
\* registered MAC sets the device's Name and its Queried flag.
C6_ResponseSetsQueried ==
    [][ Handled(RtBytes) =>
          LET m == MacOf(lastOp'.dg.data)
          IN  Devices'[m].Name # <<>> /\ Devices'[m].Queried ]_vars

\* C6 (amended): handling a query response for a registered MAC that is long
\* enough to hold the name field (86 bytes) sets the device's Name to the text of
\* that field, records the message and publishes "queried"; it leaves Queried as it
\* was (the client's handler of "queried" is what sets the flag), so Query keeps
\* targeting the device until the client does. A shorter response stops the
\* program and changes nothing.
C6_ResponseSetsName ==
    [][ Handled(RtBytes) =>
          LET m == MacOf(lastOp'.dg.data)
              data == lastOp'.dg.data
          IN  IF Len(data) >= 86
              THEN /\ Devices'[m].Name = [i \in 1..16 |-> Chr(NameBytes(data)[i])]
                   /\ Devices'[m].Queried = Devices[m].Queried
                   /\ Devices'[m].Subscribed = Devices[m].Subscribed
                   /\ Devices'[m].LastMessage = EncodeToString(data)
                   /\ passed' = <<"queried">>
                   /\ ~crashed'
              ELSE crashed' /\ Devices' = Devices /\ passed' = <<>> ]_vars

\* a query response has just named a subscribed device and left it unqueried
C6_Witness ==
    /\ lastOp.op = "CheckForMessages"
    /\ CommandOf(lastOp.dg.data) = RtBytes
    /\ ~crashed
    /\ \E m \in DOMAIN Devices :
          /\ m = MacOf(lastOp.dg.data)
          /\ Devices[m].Name = LampName
          /\ Devices[m].Subscribed
          /\ ~Devices[m].Queried

-----------------------------------------------------------------------------
(* C7 *)

\* C7: a Subscribed or Queried flag that is true stays true in every step,
\* a repeated discovery response for the same MAC included.
C7_FlagsMonotonic ==
    [][ \A m \in DOMAIN Devices :
          /\ m \in DOMAIN Devices'
          /\ Devices[m].Subscribed => Devices'[m].Subscribed
          /\ Devices[m].Queried => Devices'[m].Queried ]_vars

\* a discovery response has just been handled for a device already marked subscribed
C7_Witness ==
    /\ lastOp.op = "CheckForMessages"
    /\ CommandOf(lastOp.dg.data) = QaBytes
    /\ \E m \in DOMAIN Devices :
          /\ m = MacOf(lastOp.dg.data)
          /\ Devices[m].Subscribed
          /\ Devices[m].LastMessage = EncodeToString(lastOp.dg.data)

-----------------------------------------------------------------------------
(* C8 *)

\* C8: the registry holds one Device per MAC, keyed by it, and never loses an
\* entry; deviceCount counts the records created, so it equals the number of
\* keys; a discovery response for a registered MAC creates no record: the entry
\* keeps its ID and every field but LastMessage.
C8_OnePerMac ==
    [][ /\ DOMAIN Devices \subseteq DOMAIN Devices'
        /\ deviceCount' = Cardinality(DOMAIN Devices')
        /\ \A m \in DOMAIN Devices' : Devices'[m].MACAddress = m
        /\ \A m, n \in DOMAIN Devices' : Devices'[m].ID = Devices'[n].ID => m = n
        /\ \A m \in DOMAIN Devices : Devices'[m].ID = Devices[m].ID
        /\ Handled(QaBytes) =>
             /\ deviceCount' = deviceCount
             /\ Devices' = [Devices EXCEPT ![MacOf(lastOp'.dg.data)].LastMessage =
                                               EncodeToString(lastOp'.dg.data)] ]_vars

\* two devices are registered and the first of them has just been discovered again
C8_Witness ==
    /\ lastOp.op = "CheckForMessages"
    /\ CommandOf(lastOp.dg.data) = QaBytes
    /\ deviceCount = 2
    /\ \E m \in DOMAIN Devices :
          /\ m = MacOf(lastOp.dg.data)
          /\ Devices[m].ID = 1
          /\ Events # <<>>
          /\ Events[1].Name \in {"existingsocketfound", "existingallonefound"}

-----------------------------------------------------------------------------
(* C9 *)

\* "SOC" and "IRD", the class marker at bytes 32 to 34 of a discovery response
SocBytes == <<83, 79, 67>>

IrdBytes == <<73, 82, 68>>

ClassOf(data) == IF Len(data) >= 34 THEN SubSeq(data, 32, 34) ELSE <<>>

\* C9: a registry entry is created only by a discovery response, with the type
\* its class marker names, and its DeviceType is the same in every later state.
C9_TypeFixed ==
    [][ /\ \A m \in DOMAIN Devices :
              m \in DOMAIN Devices' /\ Devices'[m].DeviceType = Devices[m].DeviceType
        /\ \A m \in DOMAIN Devices' \ DOMAIN Devices :
              /\ lastOp'.op = "CheckForMessages"
              /\ CommandOf(lastOp'.dg.data) = QaBytes
              /\ MacOf(lastOp'.dg.data) = m
              /\ Devices'[m].DeviceType =
                    IF ClassOf(lastOp'.dg.data) = SocBytes THEN SOCKET ELSE ALLONE
              /\ ClassOf(lastOp'.dg.data) \in {SocBytes, IrdBytes} ]_vars

\* a device registered as a socket has just answered discovery with the AllOne marker
C9_Witness ==
    /\ lastOp.op = "CheckForMessages"
    /\ CommandOf(lastOp.dg.data) = QaBytes
    /\ ClassOf(lastOp.dg.data) = IrdBytes
    /\ \E m \in DOMAIN Devices :
          /\ m = MacOf(lastOp.dg.data)
          /\ Devices[m].DeviceType = SOCKET
          /\ Devices[m].LastMessage = EncodeToString(lastOp.dg.data)

-----------------------------------------------------------------------------
(* C10 *)

\* C10: SetState on a registered device that is not a socket returns the error
\* "Can't set state on a non-socket", sends no packet, publishes no event and
\* leaves the registry, that device's State included, as it was.
C10_NonSocketRejected ==
    [][ ( /\ lastOp'.op = "SetState"
          /\ lastOp'.mac \in DOMAIN Devices
          /\ Devices[lastOp'.mac].DeviceType # SOCKET
          /\ ~crashed )
        => /\ ret' = [ok |-> FALSE, err |-> "Can't set state on a non-socket"]
           /\ sent' = <<>>
           /\ passed' = <<>>
           /\ Devices' = Devices
           /\ Events' = Events
           /\ ~crashed' ]_vars

\* SetState(mac, on) has just been refused for an AllOne whose State is off
C10_Witness ==
    /\ lastOp.op = "SetState"
    /\ lastOp.state
    /\ lastOp.mac \in DOMAIN Devices
    /\ Devices[lastOp.mac].DeviceType = ALLONE
    /\ ~Devices[lastOp.mac].State
    /\ ret = [ok |-> FALSE, err |-> "Can't set state on a non-socket"]
    /\ sent = <<>>

-----------------------------------------------------------------------------
(* C11 *)

\* "sf" and "dc" in bytes
SfBytes == <<115, 102>>

DcBytes == <<100, 99>>

-----------------------------------------------------------------------------
(* C12 *)

-----------------------------------------------------------------------------
(* C13 *)

\* "di" and "ls" in bytes
DiBytes == <<100, 105>>

LsBytes == <<108, 115>>

\* the last step was CheckForMessages handling a datagram from another machine
HandledAny ==
    /\ lastOp'.op = "CheckForMessages"
    /\ lastOp'.dg.data # <<>>
    /\ lastOp'.dg.addr.IP # LocalIP
    /\ ~crashed

\* C13: (as the specification states it) a received command that names a MAC
\* absent from the registry is ignored: the registry is unchanged, no event is
\* published, no error is returned and the receive cycle completes.
C13_UnknownDeviceIgnored ==
    [][ ( /\ HandledAny
          /\ CommandOf(lastOp'.dg.data) \in {ClBytes, RtBytes, SfBytes, DcBytes, DiBytes, LsBytes}
          /\ MacOf(lastOp'.dg.data) # <<>>
          /\ MacOf(lastOp'.dg.data) \notin DOMAIN Devices )
        => /\ Devices' = Devices
           /\ passed' = <<>>
           /\ ret'.err = "nil"
           /\ ~crashed' ]_vars

-----------------------------------------------------------------------------
(* C14 *)

\* the datagram is shorter than the fields its command reads: the command code
\* (6 bytes), the MAC (12 bytes) or the name field of a query response (86 bytes)
Undersized(data) ==
    \/ Len(data) < 6
    \/ Len(data) < 12 /\ CommandOf(data) \in {ClBytes, RtBytes, SfBytes, DcBytes, DiBytes, LsBytes}
    \/ Len(data) < 86 /\ CommandOf(data) = RtBytes

\* C14: (as the specification states it) an empty or undersized datagram makes
\* the receive cycle report failure with an error, the registry is unchanged and
\* polling can continue.
C14_UndersizedRejected ==
    [][ ( /\ lastOp'.op = "CheckForMessages"
          /\ conn
          /\ ~crashed
          /\ lastOp'.dg.addr.IP # LocalIP
          /\ Undersized(lastOp'.dg.data) )
        => /\ ~crashed'
           /\ ~ret'.ok
           /\ ret'.err # "nil"
           /\ Devices' = Devices ]_vars

-----------------------------------------------------------------------------
(* C15 *)

\* the command codes handleMessage has a case for
KnownCommands == {QaBytes, ClBytes, DcBytes, RtBytes, SfBytes, DiBytes, LsBytes}

\* C15: (as the specification states it) a datagram with a command code that is
\* not recognized is a successful no-op, also when it contains no device MAC:
\* success is returned, the registry is unchanged, no event is published and
\* the program goes on.
C15_UnknownCommandAccepted ==
    [][ ( /\ HandledAny
          /\ Len(lastOp'.dg.data) >= 6
          /\ CommandOf(lastOp'.dg.data) \notin KnownCommands )
        => /\ ret' = [ok |-> TRUE, err |-> "nil"]
           /\ Devices' = Devices
           /\ passed' = <<>>
           /\ ~crashed' ]_vars

-----------------------------------------------------------------------------
(* C16 *)

\* C16: a datagram whose source IP is this machine's own is not decoded:
\* CheckForMessages leaves the registry and the event slot as they were and
\* publishes nothing.
C16_OwnDatagramsSkipped ==
    [][ ( /\ lastOp'.op = "CheckForMessages"
          /\ ~crashed
          /\ lastOp'.dg.addr.IP = LocalIP )
        => /\ Devices' = Devices
           /\ deviceCount' = deviceCount
           /\ passed' = <<>>
           /\ Events' = Events
           /\ ret' = [ok |-> FALSE, err |-> "nil"]
           /\ ~crashed' ]_vars

\* a discovery response for a MAC that is not registered has just been read from
\* this machine's own address, and the MAC is still not registered
C16_Witness ==
    /\ lastOp.op = "CheckForMessages"
    /\ lastOp.dg.addr.IP = LocalIP
    /\ CommandOf(lastOp.dg.data) = QaBytes
    /\ ClassOf(lastOp.dg.data) = IrdBytes
    /\ MacOf(lastOp.dg.data) \in MACs \ DOMAIN Devices
    /\ passed = <<>>

-----------------------------------------------------------------------------
(* C17 *)

\* the Device a consumer reads through the DeviceInfo p of an event when the
\* registry is D
Deref(D, p) == IF p.kind = "entry" THEN D[p.mac] ELSE p

\* C17: (as the specification states it) the Device carried by an event is a
\* snapshot: while an event stays in the slot, what the consumer would read
\* through it does not change, whatever happens to the registry.
C17_EventCarriesSnapshot ==
    [][ (Events # <<>> /\ Events' = Events /\ lastOp'.op # "Consume") =>
          Deref(Devices', Events[1].DeviceInfo) = Deref(Devices, Events[1].DeviceInfo) ]_vars

-----------------------------------------------------------------------------
(* C18 *)

\* C18: handling a discovery response with a class marker from a MAC that is not
\* registered adds one entry for that MAC: a Socket for the marker SOC, an AllOne
\* for the marker IRD, not subscribed, not queried, with the next ID, the source
\* address and the message; the matching socketfound / allonefound event is
\* published and no other entry changes.
C18_DiscoveryRegisters ==
    [][ ( /\ HandledAny
          /\ CommandOf(lastOp'.dg.data) = QaBytes
          /\ ClassOf(lastOp'.dg.data) \in {SocBytes, IrdBytes}
          /\ MacOf(lastOp'.dg.data) # <<>>
          /\ MacOf(lastOp'.dg.data) \notin DOMAIN Devices )
        => LET m == MacOf(lastOp'.dg.data)
               soc == ClassOf(lastOp'.dg.data) = SocBytes
           IN  /\ DOMAIN Devices' = DOMAIN Devices \cup {m}
               /\ \A k \in DOMAIN Devices : Devices'[k] = Devices[k]
               /\ Devices'[m].DeviceType = IF soc THEN SOCKET ELSE ALLONE
               /\ Devices'[m].MACAddress = m
               /\ ~Devices'[m].Subscribed
               /\ ~Devices'[m].Queried
               /\ Devices'[m].ID = deviceCount + 1
               /\ Devices'[m].IP = lastOp'.dg.addr
               /\ Devices'[m].LastMessage = EncodeToString(lastOp'.dg.data)
               /\ Devices'[m].State = (soc /\ CarriedState(lastOp'.dg.data))
               /\ passed' = <<IF soc THEN "socketfound" ELSE "allonefound">>
               /\ ret' = [ok |-> TRUE, err |-> "nil"] ]_vars

\* an AllOne has just been registered as the second device, after a socket
C18_Witness ==
    /\ lastOp.op = "CheckForMessages"
    /\ CommandOf(lastOp.dg.data) = QaBytes
    /\ passed = <<"allonefound">>
    /\ MacOf(lastOp.dg.data) \in DOMAIN Devices
    /\ Devices[MacOf(lastOp.dg.data)].ID = 2
    /\ Devices[MacOf(lastOp.dg.data)].DeviceType = ALLONE
    /\ ~Devices[MacOf(lastOp.dg.data)].Subscribed
    /\ \E k \in DOMAIN Devices : Devices[k].DeviceType = SOCKET /\ Devices[k].ID = 1

-----------------------------------------------------------------------------
(* C19 *)

\* C19: (as the specification states it) a discovery response for a registered
\* MAC publishes the existing-device event and sets the device's address to the
\* source of the datagram and its LastMessage to the datagram, and changes
\* nothing else.
C19_RediscoveryRefreshesAddress ==
    [][ (Handled(QaBytes) /\ ClassOf(lastOp'.dg.data) \in {SocBytes, IrdBytes}) =>
          /\ Devices' = [Devices EXCEPT
                 ![MacOf(lastOp'.dg.data)].IP = lastOp'.dg.addr,
                 ![MacOf(lastOp'.dg.data)].LastMessage = EncodeToString(lastOp'.dg.data)]
          /\ passed' \in {<<"existingsocketfound">>, <<"existingallonefound">>} ]_vars

-----------------------------------------------------------------------------
(* C20 *)

\* "ic" in bytes
IcBytes == <<105, 99>>

\* the registered devices that are AllOnes
AllOnes == {m \in DOMAIN Devices : Devices[m].DeviceType = ALLONE}

\* C20: EmitIR(code, "ALL") sends one IR command to every AllOne of the registry
\* and nothing to any socket; EmitIR(code, mac) for a registered mac sends one
\* IR command if the device is an AllOne and nothing otherwise.
C20_EmitIRTargets ==
    (lastOp.op = "EmitIR" /\ ~crashed) =>
        /\ \A i \in DOMAIN sent : CommandOf(sent[i].data) = IcBytes
        /\ \A m \in DOMAIN Devices :
              Cardinality(SentTo(IcBytes, m)) =
                  IF m \in AllOnes /\ lastOp.mac \in {ALL, m} THEN 1 ELSE 0
        /\ Len(sent) = IF lastOp.mac = ALL THEN Cardinality(AllOnes)
                       ELSE Cardinality(AllOnes \cap {lastOp.mac})

\* EmitIR(code, "ALL") has just sent to the AllOne and passed over the socket
C20_Witness ==
    /\ lastOp.op = "EmitIR"
    /\ lastOp.mac = ALL
    /\ Len(sent) = 1
    /\ \E m \in AllOnes : SentTo(IcBytes, m) # {}
    /\ \E m \in DOMAIN Devices : Devices[m].DeviceType = SOCKET /\ SentTo(IcBytes, m) = {}

-----------------------------------------------------------------------------
(* C21 *)

\* the bytes of the state command for the device mac: 68 64 00 17 "dc", the MAC,
\* six spaces, four zero bytes and the state byte
StateCommand(mac, on) ==
    <<104, 100, 0, 23, 100, 99>> \o DecodeString(mac) \o <<32, 32, 32, 32, 32, 32>>
        \o <<0, 0, 0, 0>> \o <<IF on THEN 1 ELSE 0>>

\* C21: SetState(mac, on) on a registered socket sets that device's State to on
\* and changes nothing else in the registry; it sends one packet, to that device,
\* which is the state command ending in 01 for on and 00 for off.
C21_SetStateWritesAndSends ==
    [][ ( /\ lastOp'.op = "SetState"
          /\ ~crashed
          /\ lastOp'.mac \in DOMAIN Devices
          /\ Devices[lastOp'.mac].DeviceType = SOCKET )
        => /\ Devices' = [Devices EXCEPT ![lastOp'.mac].State = lastOp'.state]
           /\ Len(sent') = 1
           /\ sent'[1].to = Devices[lastOp'.mac].IP
           /\ sent'[1].data = StateCommand(lastOp'.mac, lastOp'.state)
           /\ ~crashed' ]_vars

\* a socket has just been set off, with a second device registered
C21_Witness ==
    /\ lastOp.op = "SetState"
    /\ ~lastOp.state
    /\ lastOp.mac \in DOMAIN Devices
    /\ Devices[lastOp.mac].DeviceType = SOCKET
    /\ ~Devices[lastOp.mac].State
    /\ Len(sent) = 1
    /\ sent[1].data[Len(sent[1].data)] = 0
    /\ sent[1].ok
    /\ Cardinality(DOMAIN Devices) = 2

-----------------------------------------------------------------------------
(* C22 *)

\* the 16 bytes are all spaces or all 0xFF
BlankName(b) == (\A i \in 1..16 : b[i] = 32) \/ (\A i \in 1..16 : b[i] = 255)

\* C22: handling a query response (long enough to hold the name field) for a
\* registered MAC whose name field is all 0x20 or all 0xFF sets Name to
\* "Socket <mac>" for a socket and "AllOne <mac>" for an AllOne; any other name
\* field sets Name to the text of the field.
C22_BlankNameSynthesized ==
    [][ (Handled(RtBytes) /\ Len(lastOp'.dg.data) >= 86) =>
          LET m    == MacOf(lastOp'.dg.data)
              name == NameBytes(lastOp'.dg.data)
          IN  /\ ~crashed'
              /\ IF BlankName(name)
                 THEN /\ Devices[m].DeviceType = SOCKET
                            => Devices'[m].Name = <<"S","o","c","k","e","t"," ">> \o m
                      /\ Devices[m].DeviceType = ALLONE
                            => Devices'[m].Name = <<"A","l","l","O","n","e"," ">> \o m
                      /\ Devices'[m].Name # [i \in 1..16 |-> Chr(name[i])]
                 ELSE Devices'[m].Name = [i \in 1..16 |-> Chr(name[i])] ]_vars

\* a socket whose query response carried sixteen spaces has just been named after its MAC
C22_Witness ==
    /\ lastOp.op = "CheckForMessages"
    /\ CommandOf(lastOp.dg.data) = RtBytes
    /\ Len(lastOp.dg.data) >= 86
    /\ BlankName(NameBytes(lastOp.dg.data))
    /\ ~crashed
    /\ MAC1 \in DOMAIN Devices
    /\ MacOf(lastOp.dg.data) = MAC1
    /\ Devices[MAC1].DeviceType = SOCKET
    /\ Devices[MAC1].Name = <<"S","o","c","k","e","t"," ">> \o MAC1
    /\ passed = <<"queried">>

-----------------------------------------------------------------------------
(* C23 *)

\* the operations that send commands, and the event each publishes when it is done
Orchestration == {"Discover", "Subscribe", "Query", "SetState", "EnterLearningMode"}

CompletionEvents == {"discover", "broadcast", "subscribe", "query", "stateset", "irlearnmode"}

\* a write of the last operation failed
SendFailed(log) == \E i \in 1..Len(log) : ~log[i].ok

\* C23: an operation one of whose sends failed returns the failure to its caller,
\* sends no packet twice, and publishes no completion event.
C23_SendFailureReported ==
    [][ (lastOp'.op \in Orchestration /\ ~crashed' /\ SendFailed(sent')) =>
          /\ ~ret'.ok
          /\ ret'.err \in {"sendErr", "resolveErr"}
          /\ \A i, j \in 1..Len(sent') :
                (sent'[i].to = sent'[j].to /\ sent'[i].data = sent'[j].data) => i = j
          /\ \A i \in 1..Len(passed') : passed'[i] \notin CompletionEvents ]_vars

-----------------------------------------------------------------------------
(* C24 *)

\* C24: every packet an operation sends begins with the bytes 68 64 (hex), which
\* the length field and the command code follow.
C24_MagicFirst ==
    \A i \in 1..Len(sent) :
        /\ Len(sent[i].data) >= 6
        /\ sent[i].data[1] = 104
        /\ sent[i].data[2] = 100

-----------------------------------------------------------------------------
(* C25 *)

\* C25: (as the specification states it) the length field of every packet sent,
\* read low byte first, is the number of bytes of the packet.
C25_LengthLittleEndian ==
    \A i \in 1..Len(sent) :
        LET data == sent[i].data
        IN  Len(data) >= 4 /\ data[3] + 256 * data[4] = Len(data)

\* C25 (amended): the length field of every packet sent, read high byte first, is
\* the number of bytes of the packet: for the fixed commands and for EmitIR and
\* EmitRF with a short and with a long code.
C25_LengthBigEndian ==
    \A i \in 1..Len(sent) :
        LET data == sent[i].data
        IN  Len(data) >= 4 /\ 256 * data[3] + data[4] = Len(data)

\* EmitIR has just sent a packet of more than 255 bytes, whose length takes both bytes
C25_Witness ==
    /\ lastOp.op = "EmitIR"
    /\ Len(sent) = 1
    /\ Len(sent[1].data) > 255
    /\ sent[1].data[3] = 1
    /\ CommandOf(sent[1].data) = IcBytes

-----------------------------------------------------------------------------
(* C29 *)

\* the operations that take the MAC of one device
OpsOnOne == {"SetState", "EmitIR", "EmitRF", "EnterLearningMode", "EnterRFLearningMode"}

\* C29: an operation called with a MAC that is not registered completes without
\* a crash, sends nothing and leaves the registry as it was.
C29_AbsentMacHarmless ==
    [][ ( /\ ~crashed
          /\ lastOp'.op \in OpsOnOne
          /\ lastOp'.mac \in MACs
          /\ lastOp'.mac \notin DOMAIN Devices )
        => /\ ~crashed'
           /\ sent' = <<>>
           /\ Devices' = Devices ]_vars

-----------------------------------------------------------------------------
(* C26 *)

\* C26: in the example program no write of the registry overlaps the range over
\* the registry of the timer-driven Subscribe: while the resubscribe goroutine is
\* inside the range, no step of another goroutine adds a key to the map.
C26_NoWriteDuringRange ==
    [][ resubscribe.pc = "range" => DOMAIN Devices' = DOMAIN Devices ]_vars

-----------------------------------------------------------------------------
(* C27 *)

\* C27: in the example program, whose loop calls CheckForMessages only when it
\* finds the channel empty, the event published for a datagram that
\* CheckForMessages handles is placed in the channel, not dropped.
C27_DatagramEventDelivered ==
    [][ (pcMain = "read" /\ lastOp'.op = "CheckForMessages" /\ passed' # <<>>)
          => dropped' = <<>> ]_vars

-----------------------------------------------------------------------------
(* C28 *)

\* C28: in the example program, under fair scheduling and with every response
\* read, a device that has answered discovery is eventually Subscribed and Queried
\* (a run the runtime has aborted is not held against the program here).
C28_EventuallySubscribedAndQueried ==
    \A m \in Network :
        (m \in DOMAIN Devices)
            ~> (crashed \/ (m \in DOMAIN Devices /\ Devices[m].Subscribed /\ Devices[m].Queried))


====
